---- MODULE Spec2Model ----
(***************************************************************************)
(* Model of the Eastern Region Clock Report Processor (src/app.py).        *)
(*                                                                         *)
(* One upload is one run of the script: read the workbook, check the       *)
(* source sheet, strip its headers, write the original sheets, then for    *)
(* each category filter / write "Data <code>" / build the pivot view /     *)
(* write "Pivot <code>" with duplicate highlights / write the summary      *)
(* block, and finally offer the workbook for download.                     *)
(*                                                                         *)
(* A string is the sequence of its code points ("ECNB" is <<69,67,78,66>>, *)
(* "" is <<>>).  Cells are strings or the missing-cell marker NaN, which   *)
(* is what read_excel yields for a blank cell; it yields NaN for a cell    *)
(* holding the empty string too, so no cell of a loaded sheet is "".       *)
(* Numeric cells, repeated headers and uploads that already hold a sheet   *)
(* named "Data ..." or "Pivot ..." are outside the model.                  *)
(***************************************************************************)
EXTENDS Integers, Sequences, FiniteSets, TLC

VARIABLES uploaded_file, all_sheets, pc, error, writer, category,
          df_filtered, df_sorted, df_display, summary, downloaded

vars == <<uploaded_file, all_sheets, pc, error, writer, category,
          df_filtered, df_sorted, df_display, summary, downloaded>>

(***************************************************************************)
(* Bounds of the input families.                                           *)
(***************************************************************************)
MaxSourceRows == 3
MaxPivotRows == 3
MaxSummaryRows == 3

(***************************************************************************)
(* String literals of the script.                                          *)
(***************************************************************************)
\* "Clock Detail Report"
source_sheet_name == <<67, 108, 111, 99, 107, 32, 68, 101, 116, 97, 105, 108, 32, 82, 101, 112, 111, 114, 116>>
\* "ECNB", "ECMW"
ECNB == <<69, 67, 78, 66>>
ECMW == <<69, 67, 77, 87>>
categories == <<ECNB, ECMW>>
\* "Company", "Name", "Account", "DU ID"
Company == <<67, 111, 109, 112, 97, 110, 121>>
Name == <<78, 97, 109, 101>>
Account == <<65, 99, 99, 111, 117, 110, 116>>
DU_ID == <<68, 85, 32, 73, 68>>
pivot_cols == <<Company, Name, Account, DU_ID>>
\* "Data ", "Pivot " (the f-string prefixes), "Count of Name", "Grand Total"
DataPrefix == <<68, 97, 116, 97, 32>>
PivotPrefix == <<80, 105, 118, 111, 116, 32>>
CountOfName == <<67, 111, 117, 110, 116, 32, 111, 102, 32, 78, 97, 109, 101>>
GrandTotal == <<71, 114, 97, 110, 100, 32, 84, 111, 116, 97, 108>>

\* The missing cell (float NaN in an object column) and Python's None: neither
\* is a string; code point 0 occurs in no string of the model.
NaN == <<0>>
None == <<0, 0>>
\* str(NaN)
NanStr == <<110, 97, 110>>

(***************************************************************************)
(* String functions.                                                       *)
(***************************************************************************)
\* str.isspace: \t \n \v \f \r, FS GS RS US, space, NEL (133), the
\* no-break space (160), the Ogham space mark (5760), the en quad to the
\* hair space (8192-8202), the line and paragraph separators (8232, 8233),
\* the narrow no-break space (8239), the medium mathematical space (8287)
\* and the ideographic space (12288).
IsSpace(c) ==
    c \in (9..13) \cup (28..32) \cup {133, 160, 5760} \cup (8192..8202)
          \cup {8232, 8233, 8239, 8287, 12288}

RECURSIVE LStrip(_)
LStrip(s) == IF s # <<>> /\ IsSpace(s[1]) THEN LStrip(Tail(s)) ELSE s

RECURSIVE RStrip(_)
RStrip(s) == IF s # <<>> /\ IsSpace(s[Len(s)])
             THEN RStrip(SubSeq(s, 1, Len(s) - 1)) ELSE s

\* str.strip(): surrounding whitespace removed, the inside kept.
Strip(s) == RStrip(LStrip(s))

\* Case-insensitive comparison of characters (re.IGNORECASE, ASCII).
Lower(c) == IF c \in 65..90 THEN c + 32 ELSE c

\* astype(str) of a cell: NaN becomes the text "nan".
AsTypeStr(v) == IF v = NaN THEN NanStr ELSE v

\* re.match of a literal pattern at the start of s, ignoring case.
RECURSIVE MatchAt(_, _)
MatchAt(s, pat) ==
    IF pat = <<>> THEN TRUE
    ELSE IF s = <<>> THEN FALSE
    ELSE Lower(s[1]) = Lower(pat[1]) /\ MatchAt(Tail(s), Tail(pat))

\* Series.str.contains(pat, case=False) on one string: re.search scans the
\* start positions from the left.
RECURSIVE StrContains(_, _)
StrContains(s, pat) ==
    IF MatchAt(s, pat) THEN TRUE
    ELSE IF s = <<>> THEN FALSE
    ELSE StrContains(Tail(s), pat)

\* Python's str < str: code point order, a proper prefix is smaller.
RECURSIVE StrLess(_, _)
StrLess(a, b) ==
    IF b = <<>> THEN FALSE
    ELSE IF a = <<>> THEN TRUE
    ELSE IF a[1] # b[1] THEN a[1] < b[1]
    ELSE StrLess(Tail(a), Tail(b))

(***************************************************************************)
(* DataFrame functions.  A DataFrame is [columns |-> <<header, ...>>,      *)
(* rows |-> <<row, ...>>], a row being the sequence of its cells.          *)
(***************************************************************************)
\* Position of the column labelled name.
ColIndex(columns, name) == CHOOSE j \in 1..Len(columns) : columns[j] = name

\* df[cols]: the columns named cols, in that order.
SelectColumns(df, cols) ==
    [columns |-> cols,
     rows |-> [i \in 1..Len(df.rows) |->
                 [k \in 1..Len(cols) |-> df.rows[i][ColIndex(df.columns, cols[k])]]]]

\* DataFrame.drop_duplicates(): the first occurrence of each row is kept, in
\* order; missing cells compare equal to each other.
RECURSIVE DropDuplicatesRows(_, _)
DropDuplicatesRows(rows, seen) ==
    IF rows = <<>> THEN <<>>
    ELSE IF \E k \in 1..Len(seen) : seen[k] = Head(rows)
         THEN DropDuplicatesRows(Tail(rows), seen)
         ELSE <<Head(rows)>> \o DropDuplicatesRows(Tail(rows), Append(seen, Head(rows)))

\* drop_duplicates left out.
DropDuplicates_KeepAll(df) == df

DropDuplicates(df) ==
    [columns |-> df.columns, rows |-> DropDuplicatesRows(df.rows, <<>>)]

\* DataFrame.fillna(""): every missing cell becomes the empty string.
FillNa(df) ==
    [columns |-> df.columns,
     rows |-> [i \in 1..Len(df.rows) |->
                 [k \in 1..Len(df.rows[i]) |->
                    IF df.rows[i][k] = NaN THEN <<>> ELSE df.rows[i][k]]]]

\* Order of two rows on the key columns by (positions), first key first.
RECURSIVE KeyLess(_, _, _)
KeyLess(r1, r2, by) ==
    IF by = <<>> THEN FALSE
    ELSE IF r1[Head(by)] # r2[Head(by)] THEN StrLess(r1[Head(by)], r2[Head(by)])
    ELSE KeyLess(r1, r2, Tail(by))

\* Stable insertion: row goes after every row that is not greater.
RECURSIVE InsertSorted(_, _, _)
InsertSorted(row, sorted, by) ==
    IF sorted = <<>> THEN <<row>>
    ELSE IF KeyLess(row, Head(sorted), by) THEN <<row>> \o sorted
    ELSE <<Head(sorted)>> \o InsertSorted(row, Tail(sorted), by)

RECURSIVE SortRows(_, _)
SortRows(rows, by) ==
    IF rows = <<>> THEN <<>>
    ELSE InsertSorted(rows[Len(rows)], SortRows(SubSeq(rows, 1, Len(rows) - 1), by), by)

\* sort_values left out.
SortValues_Unsorted(df, by) == df

\* DataFrame.sort_values(by=cols): ascending, stable.
SortValues(df, by) ==
    [columns |-> df.columns,
     rows |-> SortRows(df.rows, [k \in 1..Len(by) |-> ColIndex(df.columns, by[k])])]

(***************************************************************************)
(* create_pivot_view.                                                      *)
(***************************************************************************)
\* The inner loop over group_cols for one row, from column k on: a value is
\* hidden while the parent chain is unchanged and it equals the previous
\* row's value; the first shown value breaks the chain.
\* The inner loop without the chain: a value is hidden whenever it equals the
\* previous row's value.
RECURSIVE MaskColumns_NoChain(_, _, _, _)
MaskColumns_NoChain(row, prev_row, k, is_parent_same) ==
    IF k > Len(row) THEN <<>>
    ELSE IF row[k] = prev_row[k]
         THEN << <<>> >> \o MaskColumns_NoChain(row, prev_row, k + 1, TRUE)
         ELSE << row[k] >> \o MaskColumns_NoChain(row, prev_row, k + 1, FALSE)

RECURSIVE MaskColumns(_, _, _, _)
MaskColumns(row, prev_row, k, is_parent_same) ==
    IF k > Len(row) THEN <<>>
    ELSE IF is_parent_same /\ row[k] = prev_row[k]
         THEN << <<>> >> \o MaskColumns(row, prev_row, k + 1, TRUE)
         ELSE << row[k] >> \o MaskColumns(row, prev_row, k + 1, FALSE)

\* The outer loop over df_sorted.iterrows(); after a row every prev_row[col]
\* holds that row's actual value.
RECURSIVE FormatRows(_, _)
FormatRows(rows, prev_row) ==
    IF rows = <<>> THEN <<>>
    ELSE <<MaskColumns(Head(rows), prev_row, 1, TRUE)>> \o FormatRows(Tail(rows), Head(rows))

\* The rows of df restricted to group_cols, as the loop reads them (row[col]).
GroupRows(df, group_cols) == SelectColumns(df, group_cols).rows

\* Returns (df_sorted, df_display).
CreatePivotView(df_input, group_cols) ==
    LET sorted == SortValues(FillNa(df_input), group_cols)
    IN  [df_sorted |-> sorted,
         df_display |->
            [columns |-> group_cols,
             rows |-> FormatRows(GroupRows(sorted, group_cols),
                                 [k \in 1..Len(group_cols) |-> None])]]

(***************************************************************************)
(* The script's expressions.                                               *)
(***************************************************************************)
EmptyFrame == [columns |-> <<>>, rows |-> <<>>]

HasSheet(sheets, name) == \E i \in 1..Len(sheets) : sheets[i].name = name

SourceIndex == CHOOSE i \in 1..Len(all_sheets) : all_sheets[i].name = source_sheet_name

\* df_source is the DataFrame object held in all_sheets, not a copy of it.
df_source == all_sheets[SourceIndex]

\* A sheet of the output workbook: a table written by to_excel (columns, rows)
\* or a worksheet written cell by cell (text and number cells).
TableSheet(name, df) ==
    [name |-> name, columns |-> df.columns, rows |-> df.rows, text |-> {}, number |-> {}]

CellSheet(name, text, number) ==
    [name |-> name, columns |-> <<>>, rows |-> <<>>, text |-> text, number |-> number]

\* The mask with case=True: the category must occur letter for letter.
Mask_CaseSensitive(df, cat) ==
    [i \in 1..Len(df.rows) |->
        LET s == AsTypeStr(df.rows[i][9])
        IN  \E start \in 0..(Len(s) - Len(cat)) : SubSeq(s, start + 1, start + Len(cat)) = cat]

\* mask = df_source.iloc[:, 8].astype(str).str.contains(category, case=False, na=False)
Mask(df, cat) == [i \in 1..Len(df.rows) |-> StrContains(AsTypeStr(df.rows[i][9]), cat)]

RECURSIVE BooleanIndex(_, _)
BooleanIndex(rows, mask) ==
    IF rows = <<>> THEN <<>>
    ELSE (IF Head(mask) THEN <<Head(rows)>> ELSE <<>>) \o BooleanIndex(Tail(rows), Tail(mask))

\* df_source[mask]
Filtered(df, cat) ==
    [columns |-> df.columns, rows |-> BooleanIndex(df.rows, Mask(df, cat))]

\* missing = [c for c in pivot_cols if c not in df_filtered.columns]
Missing(df) ==
    SelectSeq(pivot_cols, LAMBDA c : ~ \E j \in 1..Len(df.columns) : df.columns[j] = c)

\* is_duplicate decided against the row above only.
IsDuplicate_RowAbove(sorted, row_idx) ==
    LET du == ColIndex(sorted.columns, DU_ID)
    IN  row_idx > 0 /\ sorted.rows[row_idx][du] = sorted.rows[row_idx + 1][du]

\* is_duplicate for the row at position row_idx (0-based) of df_sorted.
IsDuplicate(sorted, row_idx) ==
    LET du == ColIndex(sorted.columns, DU_ID)
        actual_du_id == sorted.rows[row_idx + 1][du]
    IN  Cardinality({j \in 1..Len(sorted.rows) : sorted.rows[j][du] = actual_du_id}) > 1

\* The format of one display cell.
CellFmt(col_idx, cell_value, is_duplicate) ==
    IF col_idx = 3 /\ is_duplicate THEN "orange_fmt"
    ELSE IF col_idx = 0 /\ cell_value # <<>> THEN "data_bold_fmt"
    ELSE "data_fmt"

\* The cells of a Pivot sheet: the headers on row 2, display row row_idx on
\* row row_idx + 3.
PivotCells(sorted, display) ==
    {[row |-> 2, col |-> c, value |-> pivot_cols[c + 1], fmt |-> "header_fmt"] :
        c \in 0..(Len(pivot_cols) - 1)}
    \cup
    {[row |-> row_idx + 3, col |-> col_idx,
      value |-> display.rows[row_idx + 1][col_idx + 1],
      fmt |-> CellFmt(col_idx, display.rows[row_idx + 1][col_idx + 1],
                      IsDuplicate(sorted, row_idx))] :
        row_idx \in 0..(Len(display.rows) - 1), col_idx \in 0..(Len(display.columns) - 1)}

\* The set S of strings in ascending order.
RECURSIVE SortedSeq(_)
SortedSeq(S) ==
    IF S = {} THEN <<>>
    ELSE LET m == CHOOSE x \in S : \A y \in S \ {x} : StrLess(x, y)
         IN  <<m>> \o SortedSeq(S \ {m})

\* The aggregation with count() in place of nunique(): the rows of a group
\* with a value, repeated values included.
GroupByNunique_Count(df, key, val) ==
    LET kc == ColIndex(df.columns, key)
        vc == ColIndex(df.columns, val)
        keys == {df.rows[i][kc] : i \in 1..Len(df.rows)} \ {NaN}
        grp == SortedSeq(keys)
    IN  [g \in 1..Len(grp) |->
           [company |-> grp[g],
            count |-> Cardinality({j \in 1..Len(df.rows) :
                         df.rows[j][kc] = grp[g] /\ df.rows[j][vc] # NaN})]]

\* df.groupby(key)[val].nunique().reset_index(): one row per key value in
\* ascending order; rows whose key is missing form no group, and missing
\* values are not counted.
GroupByNunique(df, key, val) ==
    LET kc == ColIndex(df.columns, key)
        vc == ColIndex(df.columns, val)
        keys == {df.rows[i][kc] : i \in 1..Len(df.rows)} \ {NaN}
        grp == SortedSeq(keys)
    IN  [g \in 1..Len(grp) |->
           [company |-> grp[g],
            count |-> Cardinality({df.rows[i][vc] :
                         i \in {j \in 1..Len(df.rows) : df.rows[j][kc] = grp[g]}} \ {NaN})]]

\* The loop "for idx, row in summary.iterrows(): last_row = idx + 3".
RECURSIVE LastRowLoop(_, _, _)
LastRowLoop(idx, n, last_row) ==
    IF idx >= n THEN last_row ELSE LastRowLoop(idx + 1, n, idx + 3)

LastRow(summ) == LastRowLoop(0, Len(summ), 3)

\* summary["Count of Name"].sum()
RECURSIVE SumCounts(_)
SumCounts(summ) == IF summ = <<>> THEN 0 ELSE Head(summ).count + SumCounts(Tail(summ))

\* The text cells of the summary block: G3/H3 headers (row 2, columns 6
\* and 7), the company names, "Grand Total".
SummaryText(summ) ==
    {[row |-> 2, col |-> 6, value |-> Company, fmt |-> "header_fmt"],
     [row |-> 2, col |-> 7, value |-> CountOfName, fmt |-> "header_fmt"],
     [row |-> LastRow(summ) + 1, col |-> 6, value |-> GrandTotal, fmt |-> "header_fmt"]}
    \cup
    {[row |-> idx + 3, col |-> 6, value |-> summ[idx + 1].company, fmt |-> "data_fmt"] :
        idx \in 0..(Len(summ) - 1)}

\* The number cells of the summary block: the counts and the total.
SummaryNumbers(summ) ==
    {[row |-> LastRow(summ) + 1, col |-> 7, value |-> SumCounts(summ), fmt |-> "header_fmt"]}
    \cup
    {[row |-> idx + 3, col |-> 7, value |-> summ[idx + 1].count, fmt |-> "data_fmt"] :
        idx \in 0..(Len(summ) - 1)}

(***************************************************************************)
(* The uploads the model runs on.  A workbook is the sequence of its       *)
(* sheets [name, columns, rows] in workbook order.                         *)
(***************************************************************************)
\* "Notes", with a one-column table headed "Memo " holding "x".
NotesSheet ==
    [name |-> <<78, 111, 116, 101, 115>>,
     columns |-> << <<77, 101, 109, 111, 32>> >>,
     rows |-> << << <<120>> >> >>]

\* Headers "Company", "Name", "Account", "DU ID", "E", "F", "G", "H", "Type".
HeadersPlain ==
    <<Company, Name, Account, DU_ID, <<69>>, <<70>>, <<71>>, <<72>>, <<84, 121, 112, 101>> >>
\* The same with " Company", "Name" followed by an ideographic space and
\* "DU ID" between a no-break space and a space.
HeadersPadded ==
    << <<32>> \o Company, Name \o <<12288>>, Account, <<160>> \o DU_ID \o <<32>>,
       <<69>>, <<70>>, <<71>>, <<72>>, <<84, 121, 112, 101>> >>
\* Only the first eight columns.
HeadersShort == SubSeq(HeadersPlain, 1, 8)
\* "DUID" in place of "DU ID".
HeadersNoDuId ==
    <<Company, Name, Account, <<68, 85, 73, 68>>, <<69>>, <<70>>, <<71>>, <<72>>,
      <<84, 121, 112, 101>> >>

HeaderRows == {HeadersPlain, HeadersPadded, HeadersShort, HeadersNoDuId}

\* A source row from (company, name, account, du id, classification): the
\* grouping cells in columns 1-4, blanks in 5-8, the classification in 9.
SourceRow(r, width) ==
    SubSeq(<<r[1], r[2], r[3], r[4], NaN, NaN, NaN, NaN, r[5]>>, 1, width)

SourceSheet(headers, table) ==
    [name |-> source_sheet_name, columns |-> headers,
     rows |-> [i \in 1..Len(table) |-> SourceRow(table[i], Len(headers))]]

Tables(RowSet, n) == UNION {[1..k -> RowSet] : k \in 0..n}

\* Classification cells: blank, "ECNB", "ecnb-1", "xEcMw", "ECN", "EC NB".
ClsValues ==
    {NaN, ECNB, <<101, 99, 110, 98, 45, 49>>, <<120, 69, 99, 77, 119>>,
     <<69, 67, 78>>, <<69, 67, 32, 78, 66>>}

\* Rows that differ in the classification only ("A", "J", "A", "D").
ClsRows == {<<<<65>>, <<74>>, <<65>>, <<68>>, c>> : c \in ClsValues}

\* Rows of category ECNB over Company in {blank, "B"}, Name in {"A", "AB"},
\* Account in {blank, "A"}, DU ID in {blank, "D"}.
PivotRows ==
    {<<co, na, ac, du, ECNB>> :
        co \in {NaN, <<66>>}, na \in {<<65>>, <<65, 66>>},
        ac \in {NaN, <<65>>}, du \in {NaN, <<68>>}}

\* Rows of category ECNB over Company in {blank, "A", "B"} and Name in
\* {blank, "J", "K"}.
SummaryRows ==
    {<<co, na, <<65>>, <<68>>, ECNB>> :
        co \in {NaN, <<65>>, <<66>>}, na \in {NaN, <<74>>, <<75>>}}

\* Workbooks around one source sheet: alone, after or before "Notes", and a
\* workbook that has no source sheet.
Workbooks(src) == {<<src>>, <<NotesSheet, src>>, <<src, NotesSheet>>, <<NotesSheet>>}

MainUploads ==
    UNION {Workbooks(SourceSheet(h, t)) : h \in HeaderRows, t \in Tables(ClsRows, MaxSourceRows)}

PivotUploads ==
    {<<SourceSheet(HeadersPlain, t)>> : t \in Tables(PivotRows, MaxPivotRows)}

SummaryUploads ==
    {<<SourceSheet(HeadersPlain, t)>> : t \in Tables(SummaryRows, MaxSummaryRows)}

(***************************************************************************)
(* The run.                                                                *)
(***************************************************************************)
InitWith(uploads) ==
    /\ uploaded_file \in uploads
    /\ all_sheets = <<>>
    /\ pc = "read_excel"
    /\ error = "none"
    /\ writer = <<>>
    /\ category = 1
    /\ df_filtered = EmptyFrame
    /\ df_sorted = EmptyFrame
    /\ df_display = EmptyFrame
    /\ summary = <<>>
    /\ downloaded = FALSE

Init == InitWith(MainUploads)
InitPivot == InitWith(PivotUploads)
InitSummary == InitWith(SummaryUploads)

\* st.error(...); st.stop(): the run ends there (st.stop() leaves the script
\* from inside the try block and the writer block; nothing after it runs).
Stop(message) ==
    /\ error' = message
    /\ pc' = "stopped"

\* all_sheets = pd.read_excel(uploaded_file, sheet_name=None)
ReadExcel ==
    /\ pc = "read_excel"
    /\ all_sheets' = uploaded_file
    /\ pc' = "check_sheet"
    /\ UNCHANGED <<uploaded_file, error, writer, category, df_filtered, df_sorted,
                   df_display, summary, downloaded>>

\* if source_sheet_name not in all_sheets: error, stop
CheckSourceSheet ==
    /\ pc = "check_sheet"
    /\ IF ~ HasSheet(all_sheets, source_sheet_name)
       THEN Stop("missing_sheet")
       ELSE pc' = "cleanup_headers" /\ UNCHANGED error
    /\ UNCHANGED <<uploaded_file, all_sheets, writer, category, df_filtered, df_sorted,
                   df_display, summary, downloaded>>

\* df_source.columns = df_source.columns.astype(str).str.strip(), on the
\* object that all_sheets holds.
CleanupHeaders ==
    /\ pc = "cleanup_headers"
    /\ all_sheets' = [all_sheets EXCEPT ![SourceIndex].columns =
                        [j \in 1..Len(df_source.columns) |-> Strip(df_source.columns[j])]]
    /\ pc' = "write_originals"
    /\ UNCHANGED <<uploaded_file, error, writer, category, df_filtered, df_sorted,
                   df_display, summary, downloaded>>

\* The original sheets are not written at this point.
WriteOriginals_Nothing ==
    /\ pc = "write_originals"
    /\ pc' = "check_columns"
    /\ UNCHANGED <<uploaded_file, all_sheets, error, writer, category, df_filtered,
                   df_sorted, df_display, summary, downloaded>>

\* for sheet_name, df in all_sheets.items(): df.to_excel(writer, ...)
WriteOriginals ==
    /\ pc = "write_originals"
    /\ writer' = writer \o [i \in 1..Len(all_sheets) |->
                              TableSheet(all_sheets[i].name, all_sheets[i])]
    /\ pc' = "check_columns"
    /\ UNCHANGED <<uploaded_file, all_sheets, error, category, df_filtered, df_sorted,
                   df_display, summary, downloaded>>

\* if len(df_source.columns) < 9: error, stop
CheckColumns ==
    /\ pc = "check_columns"
    /\ IF Len(df_source.columns) < 9
       THEN Stop("fewer_than_9_columns")
       ELSE pc' = "filter" /\ UNCHANGED error
    /\ UNCHANGED <<uploaded_file, all_sheets, writer, category, df_filtered, df_sorted,
                   df_display, summary, downloaded>>

\* df_filtered = df_source[mask]; df_filtered.to_excel(writer, "Data <category>")
FilterData ==
    /\ pc = "filter"
    /\ df_filtered' = Filtered(df_source, categories[category])
    /\ writer' = Append(writer, TableSheet(DataPrefix \o categories[category], df_filtered'))
    /\ pc' = "check_keys"
    /\ UNCHANGED <<uploaded_file, all_sheets, error, category, df_sorted, df_display,
                   summary, downloaded>>

\* The category loop's step to the next iteration, or out of the loop.
NextCategory ==
    IF category < Len(categories)
    THEN category' = category + 1 /\ pc' = "check_columns"
    ELSE category' = category /\ pc' = "close"

\* A check that passes over a category with missing columns ("continue").
CheckKeys_Continue ==
    /\ pc = "check_keys"
    /\ IF Missing(df_filtered) # <<>>
       THEN NextCategory
       ELSE pc' = "build_pivot" /\ UNCHANGED category
    /\ UNCHANGED <<uploaded_file, all_sheets, error, writer, df_filtered, df_sorted,
                   df_display, summary, downloaded>>

\* if missing: error, stop
CheckKeys ==
    /\ pc = "check_keys"
    /\ IF Missing(df_filtered) # <<>>
       THEN Stop("missing_columns")
       ELSE pc' = "build_pivot" /\ UNCHANGED error
    /\ UNCHANGED <<uploaded_file, all_sheets, writer, category, df_filtered, df_sorted,
                   df_display, summary, downloaded>>

\* df_raw_pivot = df_filtered[pivot_cols].drop_duplicates()
\* df_sorted, df_display = create_pivot_view(df_raw_pivot, pivot_cols)
BuildPivot ==
    /\ pc = "build_pivot"
    /\ LET df_raw_pivot == DropDuplicates(SelectColumns(df_filtered, pivot_cols))
           view == CreatePivotView(df_raw_pivot, pivot_cols)
       IN  /\ df_sorted' = view.df_sorted
           /\ df_display' = view.df_display
    /\ pc' = "write_pivot"
    /\ UNCHANGED <<uploaded_file, all_sheets, error, writer, category, df_filtered,
                   summary, downloaded>>

\* worksheet = workbook.add_worksheet("Pivot <category>"); headers; the
\* display rows, each cell with its format.
WritePivot ==
    /\ pc = "write_pivot"
    /\ writer' = Append(writer, CellSheet(PivotPrefix \o categories[category],
                                          PivotCells(df_sorted, df_display), {}))
    /\ pc' = "write_summary"
    /\ UNCHANGED <<uploaded_file, all_sheets, error, category, df_filtered, df_sorted,
                   df_display, summary, downloaded>>

\* summary = df_filtered.groupby("Company")["Name"].nunique().reset_index();
\* its headers, rows and Grand Total row go to the same worksheet.  The
\* category's iteration ends here.
WriteSummary ==
    /\ pc = "write_summary"
    /\ summary' = GroupByNunique(df_filtered, Company, Name)
    /\ writer' = [writer EXCEPT
                    ![Len(writer)].text = @ \cup SummaryText(summary'),
                    ![Len(writer)].number = @ \cup SummaryNumbers(summary')]
    /\ NextCategory
    /\ UNCHANGED <<uploaded_file, all_sheets, error, df_filtered, df_sorted, df_display,
                   downloaded>>

\* The writer closes, output.seek(0), st.success, st.download_button(data=output).
Download ==
    /\ pc = "close"
    /\ downloaded' = TRUE
    /\ pc' = "done"
    /\ UNCHANGED <<uploaded_file, all_sheets, error, writer, category, df_filtered,
                   df_sorted, df_display, summary>>

Next ==
    \/ ReadExcel
    \/ CheckSourceSheet
    \/ CleanupHeaders
    \/ WriteOriginals
    \/ CheckColumns
    \/ FilterData
    \/ CheckKeys
    \/ BuildPivot
    \/ WritePivot
    \/ WriteSummary
    \/ Download

Spec == Init /\ [][Next]_vars
SpecPivot == InitPivot /\ [][Next]_vars
SpecSummary == InitSummary /\ [][Next]_vars

(***************************************************************************)
(* Properties: the pivot view (checked under SpecPivot).                   *)
(***************************************************************************)
\* df_sorted and df_display belong to the subset in df_filtered.
PivotCurrent == pc \in {"write_pivot", "write_summary"}

\* The Pivot sheet of the current category has been written and is the last
\* sheet of the workbook.
PivotSheetWritten == pc = "write_summary"

LastSheet == writer[Len(writer)]

\* The actual values of columns 1..c of sorted row i equal those of row i - 1.
PrefixEqual(i, c) ==
    \A k \in 1..c : df_sorted.rows[i][k] = df_sorted.rows[i - 1][k]

\* Blank or missing read as the empty string.
BlankAsEmpty(v) == IF v = NaN THEN <<>> ELSE v

\* Strict lexicographic order of two four-tuples.
RowBefore(r1, r2) ==
    \E c \in 1..Len(pivot_cols) :
        /\ \A k \in 1..(c - 1) : r1[k] = r2[k]
        /\ StrLess(r1[c], r2[c])

\* C1 as stated: for every row i > 0 and grouping column c the display value
\* is empty if and only if columns 0..c of sorted row i equal columns 0..c of
\* sorted row i-1, and row 0 is never masked.
C1_DisplayEmptyIffPrefixEqual ==
    PivotCurrent =>
        /\ Len(df_display.rows) = Len(df_sorted.rows)
        /\ \A i \in 2..Len(df_sorted.rows) : \A c \in 1..Len(pivot_cols) :
              (df_display.rows[i][c] = <<>>) <=> PrefixEqual(i, c)
        /\ Len(df_sorted.rows) > 0 => df_display.rows[1] = df_sorted.rows[1]

\* C1 amended: the display cell at (i, c) is blanked if and only if i > 0 and
\* columns 0..c of sorted row i equal those of row i-1; every other cell,
\* row 0's included, shows the row's actual value, which is itself the empty
\* string where the cell was blank.
C1_MaskedIffPrefixEqual ==
    PivotCurrent =>
        /\ Len(df_display.rows) = Len(df_sorted.rows)
        /\ \A i \in 1..Len(df_sorted.rows) : \A c \in 1..Len(pivot_cols) :
              df_display.rows[i][c] =
                 IF i > 1 /\ PrefixEqual(i, c) THEN <<>> ELSE df_sorted.rows[i][c]

\* A row whose Company is hidden, whose Account repeats the row above but is
\* shown because its Name differs, next to a shown blank cell.
C1_Witness ==
    /\ PivotCurrent
    /\ \E i \in 2..Len(df_sorted.rows) :
          /\ PrefixEqual(i, 1)
          /\ ~ PrefixEqual(i, 2)
          /\ df_sorted.rows[i][3] = df_sorted.rows[i - 1][3]
          /\ df_sorted.rows[i][3] # <<>>
          /\ df_display.rows[i][3] = df_sorted.rows[i][3]
    /\ \E i \in 2..Len(df_sorted.rows) : \E c \in 1..Len(pivot_cols) :
          ~ PrefixEqual(i, c) /\ df_sorted.rows[i][c] = <<>>

\* C2: the sorted rows are the four-tuples of the filtered subset with blank
\* read as the empty string, in strictly ascending lexicographic order on
\* (Company, Name, Account, DU ID); no two rows carry the same four-tuple.
C2_StrictlyAscending ==
    PivotCurrent =>
        /\ \A i \in 1..(Len(df_sorted.rows) - 1) :
              RowBefore(df_sorted.rows[i], df_sorted.rows[i + 1])
        /\ {df_sorted.rows[i] : i \in 1..Len(df_sorted.rows)} =
           {[k \in 1..Len(pivot_cols) |->
               BlankAsEmpty(df_filtered.rows[i][ColIndex(df_filtered.columns, pivot_cols[k])])] :
               i \in 1..Len(df_filtered.rows)}

\* A subset given out of order, with a repeated tuple and a blank cell.
C2_Witness ==
    /\ PivotCurrent
    /\ Len(df_filtered.rows) = 3
    /\ Len(df_sorted.rows) = 2
    /\ df_filtered.rows[1] = df_filtered.rows[3]
    /\ df_filtered.rows[2][1] = NaN
    /\ df_filtered.rows[1][1] # NaN

\* Number of sorted rows whose actual DU ID is that of row i.
Multiplicity(i) ==
    Cardinality({j \in 1..Len(df_sorted.rows) : df_sorted.rows[j][4] = df_sorted.rows[i][4]})

RECURSIVE SumOfMultiplicities(_)
SumOfMultiplicities(values) ==
    IF values = {} THEN 0
    ELSE LET v == CHOOSE x \in values : TRUE
             n == Cardinality({j \in 1..Len(df_sorted.rows) : df_sorted.rows[j][4] = v})
         IN  (IF n > 1 THEN n ELSE 0) + SumOfMultiplicities(values \ {v})

\* The DU ID cells (column 3) written to the sheet on the row of sorted row i.
DuIdCells(sheet, i) == {c \in sheet.text : c.row = i + 2 /\ c.col = 3}

\* C3: in a Pivot sheet the DU ID cell of sorted row i carries the duplicate
\* highlight if and only if more than one sorted row has that row's actual
\* DU ID, and the number of highlighted rows is the sum of the multiplicities
\* of the DU ID values that occur more than once.
C3_DuplicateFlag ==
    PivotSheetWritten =>
        /\ \A i \in 1..Len(df_sorted.rows) :
              /\ Cardinality(DuIdCells(LastSheet, i)) = 1
              /\ \A c \in DuIdCells(LastSheet, i) :
                    (c.fmt = "orange_fmt") <=> (Multiplicity(i) > 1)
        /\ Cardinality({i \in 1..Len(df_sorted.rows) :
                          \E c \in DuIdCells(LastSheet, i) : c.fmt = "orange_fmt"})
           = SumOfMultiplicities({df_sorted.rows[i][4] : i \in 1..Len(df_sorted.rows)})

\* Two highlighted rows sharing a DU ID under different parents beside a row
\* that is not highlighted.
C3_Witness ==
    /\ PivotSheetWritten
    /\ Len(df_sorted.rows) = 3
    /\ \E i, j \in 1..3 :
          /\ i # j
          /\ df_sorted.rows[i][4] = df_sorted.rows[j][4]
          /\ df_sorted.rows[i][1] # df_sorted.rows[j][1]
          /\ \E c \in DuIdCells(LastSheet, i) : c.fmt = "orange_fmt"
    /\ \E i \in 1..3 : \E c \in DuIdCells(LastSheet, i) : c.fmt = "data_fmt"

\* C10: the DU ID column is never masked: every display row shows the actual
\* DU ID of its sorted row, and the blanked cells of a row are a proper
\* prefix of its columns, the cells after it showing the actual values.
C10_LeafNeverMasked ==
    PivotCurrent =>
        \A i \in 1..Len(df_display.rows) :
            /\ df_display.rows[i][4] = df_sorted.rows[i][4]
            /\ \E n \in 0..(Len(pivot_cols) - 1) :
                  /\ \A c \in 1..n : df_display.rows[i][c] = <<>>
                  /\ \A c \in (n + 1)..Len(pivot_cols) :
                        df_display.rows[i][c] = df_sorted.rows[i][c]
                  /\ n > 0 => i > 1 /\ PrefixEqual(i, n)

\* A row that differs from the one above in its DU ID only: three cells
\* hidden, the DU ID shown.
C10_Witness ==
    /\ PivotCurrent
    /\ \E i \in 2..Len(df_sorted.rows) :
          /\ PrefixEqual(i, 3)
          /\ df_sorted.rows[i][4] # <<>>
          /\ df_display.rows[i] = <<<<>>, <<>>, <<>>, df_sorted.rows[i][4]>>

(***************************************************************************)
(* Properties: the category filter, the run and its errors (under Spec).   *)
(***************************************************************************)
\* The sheet of the upload named "Clock Detail Report".
UploadedSource ==
    uploaded_file[CHOOSE i \in 1..Len(uploaded_file) : uploaded_file[i].name = source_sheet_name]

CaseFold(s) == [k \in 1..Len(s) |-> Lower(s[k])]

IsSubstring(p, s) ==
    \E start \in 0..(Len(s) - Len(p)) : \A k \in 1..Len(p) : s[start + k] = p[k]

\* The match rule on a 9th-column value.
Matches(cell, code) == cell # NaN /\ IsSubstring(CaseFold(code), CaseFold(cell))

\* Positions of the source rows that match code, and the k-th of them.
MatchingRows(code) ==
    {i \in 1..Len(UploadedSource.rows) : Matches(UploadedSource.rows[i][9], code)}

NthMatching(code, k) ==
    CHOOSE i \in MatchingRows(code) :
        Cardinality({j \in MatchingRows(code) : j < i}) = k - 1

\* The Data sheet of the current category has been written and is the last
\* sheet of the workbook.
DataSheetWritten == pc = "check_keys"

\* C4: for a source table of at least 9 columns the rows written to
\* "Data <code>" are exactly the source rows whose 9th-column value,
\* case-folded, contains the case-folded code, in source order; a row whose
\* 9th-column value is blank is never among them.
C4_CategoryFilter ==
    DataSheetWritten =>
        LET code == categories[category]
        IN  /\ LastSheet.name = DataPrefix \o code
            /\ Len(LastSheet.rows) = Cardinality(MatchingRows(code))
            /\ \A k \in 1..Len(LastSheet.rows) :
                  LastSheet.rows[k] = UploadedSource.rows[NthMatching(code, k)]
            /\ \A k \in 1..Len(LastSheet.rows) : LastSheet.rows[k][9] # NaN

\* "ecnb-1" and "ECNB" kept in that order around a dropped blank row.
C4_Witness ==
    /\ DataSheetWritten
    /\ categories[category] = ECNB
    /\ Len(UploadedSource.rows) = 3
    /\ UploadedSource.rows[1][9] = <<101, 99, 110, 98, 45, 49>>
    /\ UploadedSource.rows[2][9] = NaN
    /\ UploadedSource.rows[3][9] = ECNB
    /\ LastSheet.rows = <<UploadedSource.rows[1], UploadedSource.rows[3]>>

\* A validation failure of the upload: no source sheet, fewer than 9 columns
\* in it, or one of the grouping columns absent after header trimming.
ValidationFailure ==
    \/ ~ HasSheet(uploaded_file, source_sheet_name)
    \/ Len(UploadedSource.columns) < 9
    \/ \E c \in 1..Len(pivot_cols) :
          \A j \in 1..Len(UploadedSource.columns) :
              Strip(UploadedSource.columns[j]) # pivot_cols[c]

SheetNames == [i \in 1..Len(writer) |-> writer[i].name]

\* The Data and Pivot sheets of category k are in the workbook, the Pivot
\* sheet with its summary block.
CategoryProduced(k) ==
    /\ \E i \in 1..Len(writer) : writer[i].name = DataPrefix \o categories[k]
    /\ \E i \in 1..Len(writer) :
          /\ writer[i].name = PivotPrefix \o categories[k]
          /\ \E c \in writer[i].text : c.value = GrandTotal

\* Some sheet of category k is in the workbook.
CategoryStarted(k) ==
    \E i \in 1..Len(writer) :
        writer[i].name \in {DataPrefix \o categories[k], PivotPrefix \o categories[k]}

\* C6: report generation is all-or-nothing: a run with a validation failure
\* ends stopped with an error message and never offers the download; the
\* download is offered only after both categories have been processed in
\* full, and no category is passed over while a later one is produced.
C6_AllOrNothing ==
    /\ ValidationFailure => ~ downloaded /\ pc \notin {"close", "done"}
    /\ ValidationFailure /\ ~ ENABLED Next => pc = "stopped" /\ error # "none"
    /\ error # "none" => pc = "stopped" /\ ~ downloaded
    /\ downloaded => error = "none" /\ \A k \in 1..Len(categories) : CategoryProduced(k)
    /\ \A k \in 2..Len(categories) : CategoryStarted(k) => CategoryProduced(k - 1)

\* A run stopped on a missing grouping column after the originals and
\* "Data ECNB" went into the workbook.
C6_Witness ==
    /\ pc = "stopped"
    /\ error = "missing_columns"
    /\ ~ downloaded
    /\ ~ ENABLED Next
    /\ CategoryStarted(1)

\* C7 as stated: each validation check is evaluated before any table has
\* been written to the output workbook, so when an error is raised the set
\* of written tables is empty.
C7_NothingWrittenAtError ==
    error # "none" => writer = <<>>

UploadedNames == [i \in 1..Len(uploaded_file) |-> uploaded_file[i].name]

\* C7 amended: every error is raised before the output is offered for
\* download; the missing-source-sheet check comes before any table is
\* written, the column-count check after the original sheets have been
\* written to the in-memory workbook, the grouping-column check after the
\* first category's Data sheet has been written as well.
C7_ErrorsBeforeDownload ==
    error # "none" =>
        /\ ~ downloaded
        /\ error = "missing_sheet" => writer = <<>>
        /\ error = "fewer_than_9_columns" => SheetNames = UploadedNames
        /\ error = "missing_columns" =>
              SheetNames = UploadedNames \o <<DataPrefix \o categories[1]>>

\* The column-count error raised with two original sheets already written.
C7_Witness ==
    /\ error = "fewer_than_9_columns"
    /\ Len(writer) = 2
    /\ ~ downloaded

\* C8: on a successful run the output workbook holds every sheet of the
\* upload under its name, in the upload's order, before any Data or Pivot
\* sheet, each with the headers, column order and rows of the upload.
C8_OriginalsPreserved ==
    pc = "done" =>
        /\ Len(writer) >= Len(uploaded_file)
        /\ \A i \in 1..Len(uploaded_file) :
              /\ writer[i].name = uploaded_file[i].name
              /\ writer[i].columns = uploaded_file[i].columns
              /\ writer[i].rows = uploaded_file[i].rows
        /\ \A i \in (Len(uploaded_file) + 1)..Len(writer) :
              \E k \in 1..Len(categories) :
                  writer[i].name \in {DataPrefix \o categories[k], PivotPrefix \o categories[k]}

(***************************************************************************)
(* Properties: the summary block (checked under SpecSummary).              *)
(***************************************************************************)
\* The summary block of the current subset has been written; it is in the
\* last sheet of the workbook.
SummaryWritten ==
    \/ pc = "check_columns" /\ category > 1
    \/ pc \in {"close", "done"}

SubsetCompany(i) == df_filtered.rows[i][ColIndex(df_filtered.columns, Company)]
SubsetName(i) == df_filtered.rows[i][ColIndex(df_filtered.columns, Name)]

RECURSIVE SumOfCounts(_)
SumOfCounts(idx) ==
    IF idx = {} THEN 0
    ELSE LET g == CHOOSE x \in idx : TRUE IN summary[g].count + SumOfCounts(idx \ {g})

\* The Grand Total number cell(s) of a sheet.
GrandTotalCells(sheet) == {c \in sheet.number : c.fmt = "header_fmt"}

\* C5 as stated: one SummaryRow for each distinct Company value of the
\* subset's raw rows (a blank being the empty-string value), its count the
\* number of distinct Name values among the subset rows of that Company, and
\* the Grand Total the sum of the counts.
C5_SummaryPerCompanyValue ==
    SummaryWritten =>
        /\ \A i \in 1..Len(df_filtered.rows) :
              Cardinality({g \in 1..Len(summary) :
                             summary[g].company = BlankAsEmpty(SubsetCompany(i))}) = 1
        /\ \A g \in 1..Len(summary) :
              /\ \E i \in 1..Len(df_filtered.rows) :
                    BlankAsEmpty(SubsetCompany(i)) = summary[g].company
              /\ summary[g].count =
                    Cardinality({BlankAsEmpty(SubsetName(i)) :
                       i \in {j \in 1..Len(df_filtered.rows) :
                                BlankAsEmpty(SubsetCompany(j)) = summary[g].company}})
        /\ \A c \in GrandTotalCells(LastSheet) : c.value = SumOfCounts(1..Len(summary))

\* C5 amended: one SummaryRow for each distinct non-blank Company of the
\* subset's raw rows (rows with a blank Company are in no SummaryRow), its
\* count the number of distinct non-blank Name values among the subset rows
\* of that Company, and the Grand Total the sum of the counts.
C5_SummaryPerNonBlankCompany ==
    SummaryWritten =>
        /\ \A i \in 1..Len(df_filtered.rows) :
              Cardinality({g \in 1..Len(summary) : summary[g].company = SubsetCompany(i)})
                 = IF SubsetCompany(i) = NaN THEN 0 ELSE 1
        /\ \A g \in 1..Len(summary) :
              /\ \E i \in 1..Len(df_filtered.rows) : SubsetCompany(i) = summary[g].company
              /\ summary[g].count =
                    Cardinality({SubsetName(i) :
                       i \in {j \in 1..Len(df_filtered.rows) :
                                SubsetCompany(j) = summary[g].company}} \ {NaN})
        /\ Cardinality(GrandTotalCells(LastSheet)) = 1
        /\ \A c \in GrandTotalCells(LastSheet) : c.value = SumOfCounts(1..Len(summary))

\* Two companies sharing a Name, one of them with a repeated Name: the
\* Grand Total (2) differs from the row count (3) and from the number of
\* distinct Names of the subset (1).
C5_Witness ==
    /\ SummaryWritten
    /\ Len(df_filtered.rows) = 3
    /\ Len(summary) = 2
    /\ summary[1].count = 1
    /\ summary[2].count = 1
    /\ Cardinality({SubsetName(i) : i \in 1..3}) = 1
    /\ \E c \in GrandTotalCells(LastSheet) : c.value = 2

\* The sheet rows that hold a cell of the summary block's first column (G).
SummaryBlockRows(sheet) == {c.row : c \in {x \in sheet.text : x.col = 6}}

\* C9: for every number n >= 0 of SummaryRows the summary header, the n
\* SummaryRows and the Grand Total row lie on consecutive sheet rows in that
\* order: the Grand Total row comes right after the last SummaryRow, right
\* after the header when there is no SummaryRow.
C9_SummaryBlockContiguous ==
    SummaryWritten =>
        LET n == Len(summary)
            header == CHOOSE c \in LastSheet.text : c.col = 6 /\ c.value = Company
                                                       /\ c.fmt = "header_fmt"
            total == CHOOSE c \in LastSheet.text : c.col = 6 /\ c.value = GrandTotal
        IN  /\ SummaryBlockRows(LastSheet) = header.row..(header.row + n + 1)
            /\ total.row = header.row + n + 1

====
